---- MODULE Spec2Model ----
(***************************************************************************)
(* Markdown Viewer (src/main.rs): the application state of struct App, the *)
(* three state-changing methods open_files, close_tab and reload_active,   *)
(* and the per-frame redraw App::update that dispatches one click to them. *)
(*                                                                         *)
(* A path is a sequence of one-character strings.  A frame is one call of  *)
(* App::update; the clock `now` counts frames, and every SystemTime::now() *)
(* of a frame returns the number of that frame.  md_text_scale is the f32  *)
(* value in units of 2^-25 (every f32 in [0.25, 4) is a whole number of    *)
(* them), and the products are rounded as IEEE-754 binary32 rounds them.   *)
(***************************************************************************)
EXTENDS Integers, Sequences, FiniteSets, TLC

\* ------------------------------------------------------------------ bounds
\* most tabs the model lets be open at once
MaxTabs == 3
\* most paths one file dialog returns
MaxBatch == 2
\* frames of a run of Spec
MaxTime == 4
\* frames of a run of SpecScale
MaxScaleTime == 14
\* the frames of a run that opens one file of any name in each
MaxProbeTime == 3

\* ------------------------------------------------------------------- paths
P_a_md == <<"a", ".", "m", "d">>
P_d_R_Markdown == <<"d", "/", "R", ".", "M", "a", "r", "k", "D", "o", "w", "n">>
P_n_txt == <<"n", ".", "t", "x", "t">>
P_dot_md == <<".", "m", "d">>

\* the paths the file dialog can return
DialogPaths == {P_a_md, P_d_R_Markdown, P_n_txt, P_dot_md}

\* more names a user can pick with the filter of the dialog set aside
P_X_MD == <<"X", ".", "M", "D">>
P_y_Md == <<"y", ".", "M", "d">>
P_md == <<"m", "d">>
P_a_md_b == <<"a", ".", "m", "d", ".", "b">>
P_b_mdx == <<"b", ".", "m", "d", "x">>
P_c_md_dot == <<"c", ".", "m", "d", ".">>
P_d_x_md == <<"d", ".", "x", "/", "m", "d">>
ProbePaths ==
    DialogPaths \cup {P_X_MD, P_y_Md, P_md, P_a_md_b, P_b_mdx, P_c_md_dot, P_d_x_md}

\* what a file holds when it is first opened, and what an edit leaves in it
Original(p) == IF p = P_a_md THEN "# Hi" ELSE "# Title"
Edited == "# Hi v2"
Contents == {"# Hi", "# Title", Edited}
\* the I/O errors a read can fail with
IoErrors == {"NotFound"}

ReadOk(c) == [ok |-> TRUE, data |-> c]
ReadErr(e) == [ok |-> FALSE, data |-> e]
\* fs::read_to_string: the file's text, or an io::Error
ReadOutcomes == {ReadOk(c) : c \in Contents} \cup {ReadErr(e) : e \in IoErrors}
\* the outcomes of reading p when it is opened: its first contents or an error
OpenReads(p) == {ReadOk(Original(p))} \cup {ReadErr(e) : e \in IoErrors}
\* the outcomes of reading p again: as it was, edited, or an error
ReloadReads(p) == {ReadOk(Original(p)), ReadOk(Edited)} \cup {ReadErr(e) : e \in IoErrors}
\* placeholder at the batch positions whose file is never read
NoRead == [ok |-> FALSE, data |-> "-"]

\* char::to_lowercase on the letters the paths use
LowerChar(c) ==
    CASE c = "M" -> "m"
      [] c = "D" -> "d"
      [] c = "R" -> "r"
      [] OTHER -> c

\* str::to_lowercase
ToLowercase(s) == [i \in 1..Len(s) |-> LowerChar(s[i])]

\* positions of character c in s
Positions(s, c) == {i \in 1..Len(s) : s[i] = c}

SetMax(S) == CHOOSE m \in S : \A x \in S : x <= m

\* the text after the last occurrence of c (all of s when there is none)
AfterLast(s, c) ==
    IF Positions(s, c) = {} THEN s
    ELSE SubSeq(s, SetMax(Positions(s, c)) + 1, Len(s))

\* an Option<String>
None == [some |-> FALSE, val |-> <<>>]
Some(v) == [some |-> TRUE, val |-> v]

\* Path::file_name: the last component, None when the path ends in ".."
\* or has no component
FileName(p) ==
    LET n == AfterLast(p, "/")
    IN  IF n = <<>> \/ n = <<".", ".">> THEN None ELSE Some(n)

\* Path::extension: the part of the file name after its last ".", None
\* when there is no file name, no "." in it, or its only "." is the first
\* character
Extension(p) ==
    LET f == FileName(p)
        dots == Positions(f.val, ".")
    IN  IF ~f.some \/ dots = {} \/ SetMax(dots) = 1 THEN None
        ELSE Some(SubSeq(f.val, SetMax(dots) + 1, Len(f.val)))

\* is_md comparing the extension as it is written
IsMdCaseSensitive(p) ==
    LET e == Extension(p)
    IN  e.some /\ e.val \in
                    {<<"m", "d">>, <<"m", "a", "r", "k", "d", "o", "w", "n">>}

\* is_md of open_files
IsMd(p) ==
    LET e == Extension(p)
    IN  e.some /\ ToLowercase(e.val) \in
                    {<<"m", "d">>, <<"m", "a", "r", "k", "d", "o", "w", "n">>}

\* the title of a path without a file name, as one piece of text
UNTITLED == <<"untitled.md">>

\* the title DocTab::from_path gives a tab
TitleOf(p) == IF FileName(p).some THEN FileName(p).val ELSE UNTITLED

\* DocTab::from_path on a read that succeeded with text c at time t
DocTab(p, c, t) == [title |-> TitleOf(p), path |-> p, content |-> c, last_read |-> t]

\* ------------------------------------------------------------ status texts
Status(m, a) == [msg |-> m, arg |-> a]
StReady == Status("Ready", <<>>)
StOpened == Status("Opened file", <<>>)
StReloaded == Status("Reloaded from disk", <<>>)
\* format!("Skipped non-markdown file: {}", file name or "")
StSkipped(p) == Status("Skipped non-markdown file: ", FileName(p).val)
\* format!("Failed to open: {e}")
StOpenFailed(e) == Status("Failed to open: ", <<e>>)
\* format!("Reload failed: {e}")
StReloadFailed(e) == Status("Reload failed: ", <<e>>)

\* --------------------------------------------------------------- f32 scale
\* f32 values in units of 2^-25
F32_0_5 == 16777216
F32_1_0 == 33554432
F32_3_0 == 100663296
\* the f32 nearest to 0.9 is 15099494 * 2^-24, to 1.1 is 9227469 * 2^-23
F32_0_9 == 30198988
F32_1_1 == 36909876

\* the spacing of the f32 values around r (r in units of 2^-25, in [0.25, 4))
Ulp(r) ==
    IF r < 16777216 THEN 1
    ELSE IF r < 33554432 THEN 2
    ELSE IF r < 67108864 THEN 4
    ELSE 8

\* f32 multiplication n * m, rounded to nearest, ties to even.  The exact
\* product is accumulated in limbs of 13 bits so that no intermediate value
\* needs more than 31 bits.
F32Mul(n, m) ==
    LET n1 == n \div 8192
        n0 == n % 8192
        m1 == m \div 8192
        m0 == m % 8192
        cross == n1 * m0 + n0 * m1
        loRaw == (cross % 8192) * 8192 + n0 * m0
        hi == n1 * m1 + cross \div 8192 + loRaw \div 67108864
        lo == loRaw % 67108864
        \* n * m = hi * 2^26 + lo; the product in units of 2^-25 is
        \* whole + frac / 2^25
        whole == 2 * hi + lo \div 33554432
        frac == lo % 33554432
        g == Ulp(whole)
        q == whole \div g
        rem == (whole % g) * 33554432 + frac
        half == g * 16777216
        up == rem > half \/ (rem = half /\ q % 2 = 1)
    IN  (IF up THEN q + 1 ELSE q) * g

\* f32::max and f32::min
F32Max(a, b) == IF a >= b THEN a ELSE b
F32Min(a, b) == IF a <= b THEN a ELSE b

\* "A-": (md_text_scale * 0.9).max(0.5)
ScaleDown(s) == F32Max(F32Mul(s, F32_0_9), F32_0_5)

\* ScaleUp without the upper clamp
ScaleUpNoClamp(s) == F32Mul(s, F32_1_1)

\* "A+": (md_text_scale * 1.1).min(3.0)
ScaleUp(s) == F32Min(F32Mul(s, F32_1_1), F32_3_0)

\* --------------------------------------------------------------- the state
VARIABLES
    tabs,           \* App.tabs: the open DocTabs, in tab-strip order
    active,         \* App.active: 0-based index into tabs
    status,         \* App.status
    md_text_scale,  \* App.md_text_scale
    now,            \* the clock: the number of frames drawn so far
    phase,          \* "running", "panicked" (index out of bounds) or "closed"
    last            \* the click the last frame handled, with its inputs

vars == <<tabs, active, status, md_text_scale, now, phase, last>>

\* the fields of App the handlers change, with the flag of a panic
App == [tabs |-> tabs, active |-> active, status |-> status, panicked |-> FALSE]

\* usize::saturating_sub
SaturatingSub(a, b) == IF a >= b THEN a - b ELSE 0

\* self.tabs[i] for a 0-based i
TabAt(ts, i) == ts[i + 1]

\* Vec::pop in the place of Vec::remove
VecRemoveLast(ts, i) == SubSeq(ts, 1, Len(ts) - 1)

\* Vec::remove(i) for a 0-based i < len
VecRemove(ts, i) == SubSeq(ts, 1, i) \o SubSeq(ts, i + 2, Len(ts))

\* ------------------------------------------------------------ the handlers
\* OpenOne with the new tab put in front of the others
OpenOnePrepend(a, path, r, t) ==
    IF ~IsMd(path) THEN [a EXCEPT !.status = StSkipped(path)]
    ELSE IF r.ok
         THEN LET pushed == <<DocTab(path, r.data, t)>> \o a.tabs
              IN  [a EXCEPT !.tabs = pushed,
                            !.active = SaturatingSub(Len(pushed), 1),
                            !.status = StOpened]
         ELSE [a EXCEPT !.status = StOpenFailed(r.data)]

\* OpenOne with a skipped file leaving the status as it was
OpenOneSilentSkip(a, path, r, t) ==
    IF ~IsMd(path) THEN a
    ELSE IF r.ok
         THEN LET pushed == Append(a.tabs, DocTab(path, r.data, t))
              IN  [a EXCEPT !.tabs = pushed,
                            !.active = SaturatingSub(Len(pushed), 1),
                            !.status = StOpened]
         ELSE [a EXCEPT !.status = StOpenFailed(r.data)]

\* one iteration of the loop of open_files: path, with the outcome r of its
\* read at time t
\* OpenOne keeping the status of a failed read over a later success
OpenOneStickyFailure(a, path, r, t) ==
    IF ~IsMd(path) THEN [a EXCEPT !.status = StSkipped(path)]
    ELSE IF r.ok
         THEN LET pushed == Append(a.tabs, DocTab(path, r.data, t))
              IN  [a EXCEPT !.tabs = pushed,
                            !.active = SaturatingSub(Len(pushed), 1),
                            !.status = IF a.status.msg = "Failed to open: "
                                       THEN a.status ELSE StOpened]
         ELSE [a EXCEPT !.status = StOpenFailed(r.data)]

OpenOne(a, path, r, t) ==
    IF ~IsMd(path) THEN [a EXCEPT !.status = StSkipped(path)]
    ELSE IF r.ok
         THEN LET pushed == Append(a.tabs, DocTab(path, r.data, t))
              IN  [a EXCEPT !.tabs = pushed,
                            !.active = SaturatingSub(Len(pushed), 1),
                            !.status = StOpened]
         ELSE [a EXCEPT !.status = StOpenFailed(r.data)]

RECURSIVE OpenLoopBreakOnSkip(_, _, _, _, _)
\* OpenLoop with `break` where the code has `continue`
OpenLoopBreakOnSkip(a, files, reads, i, t) ==
    IF i > Len(files) THEN a
    ELSE IF ~IsMd(files[i]) THEN OpenOne(a, files[i], reads[i], t)
    ELSE OpenLoopBreakOnSkip(OpenOne(a, files[i], reads[i], t), files, reads, i + 1, t)

RECURSIVE OpenLoopAbortOnErr(_, _, _, _, _)
\* OpenLoop giving up at the first read that fails
OpenLoopAbortOnErr(a, files, reads, i, t) ==
    IF i > Len(files) THEN a
    ELSE IF IsMd(files[i]) /\ ~reads[i].ok THEN OpenOne(a, files[i], reads[i], t)
    ELSE OpenLoopAbortOnErr(OpenOne(a, files[i], reads[i], t), files, reads, i + 1, t)

RECURSIVE OpenLoop(_, _, _, _, _)
\* the loop of open_files from the i-th of the picked files on
OpenLoop(a, files, reads, i, t) ==
    IF i > Len(files) THEN a
    ELSE OpenLoop(OpenOne(a, files[i], reads[i], t), files, reads, i + 1, t)

\* App::open_files when the dialog returns Some(files)
OpenFiles(a, files, reads, t) == OpenLoop(a, files, reads, 1, t)

\* CloseTab keeping the same document active: active follows the tab
CloseTabKeepDocument(a, idx) ==
    IF idx < Len(a.tabs)
    THEN LET removed == VecRemove(a.tabs, idx)
             moved == IF idx < a.active THEN a.active - 1 ELSE a.active
         IN  [a EXCEPT !.tabs = removed,
                       !.active = IF moved >= Len(removed)
                                  THEN SaturatingSub(Len(removed), 1)
                                  ELSE moved]
    ELSE a

\* CloseTab without the clamp of active
CloseTabNoClamp(a, idx) ==
    IF idx < Len(a.tabs) THEN [a EXCEPT !.tabs = VecRemove(a.tabs, idx)] ELSE a

\* App::close_tab
\* CloseTab telling of the close in the status
CloseTabWithStatus(a, idx) ==
    IF idx < Len(a.tabs)
    THEN LET removed == VecRemove(a.tabs, idx)
         IN  [a EXCEPT !.tabs = removed,
                       !.active = IF a.active >= Len(removed)
                                  THEN SaturatingSub(Len(removed), 1)
                                  ELSE a.active,
                       !.status = Status("Closed tab", <<>>)]
    ELSE a

CloseTab(a, idx) ==
    IF idx < Len(a.tabs)
    THEN LET removed == VecRemove(a.tabs, idx)
         IN  [a EXCEPT !.tabs = removed,
                       !.active = IF a.active >= Len(removed)
                                  THEN SaturatingSub(Len(removed), 1)
                                  ELSE a.active]
    ELSE a

\* ReloadActive reporting a failure when there is no tab to reload
ReloadActiveNoTabStatus(a, r, t) ==
    IF a.active < Len(a.tabs)
    THEN IF r.ok
         THEN [a EXCEPT !.tabs[a.active + 1].content = r.data,
                        !.tabs[a.active + 1].last_read = t,
                        !.status = StReloaded]
         ELSE [a EXCEPT !.status = StReloadFailed(r.data)]
    ELSE [a EXCEPT !.status = StReloadFailed("no tab")]

\* ReloadActive making the title anew, from the whole path
ReloadActiveRetitle(a, r, t) ==
    IF a.active < Len(a.tabs)
    THEN IF r.ok
         THEN [a EXCEPT !.tabs[a.active + 1].content = r.data,
                        !.tabs[a.active + 1].last_read = t,
                        !.tabs[a.active + 1].title = a.tabs[a.active + 1].path,
                        !.status = StReloaded]
         ELSE [a EXCEPT !.status = StReloadFailed(r.data)]
    ELSE a

\* ReloadActive refreshing every tab of the file of the active tab
ReloadActiveAllSamePath(a, r, t) ==
    IF a.active < Len(a.tabs)
    THEN IF r.ok
         THEN [a EXCEPT !.tabs = [j \in 1..Len(a.tabs) |->
                                    IF a.tabs[j].path = a.tabs[a.active + 1].path
                                    THEN [a.tabs[j] EXCEPT !.content = r.data,
                                                           !.last_read = t]
                                    ELSE a.tabs[j]],
                        !.status = StReloaded]
         ELSE [a EXCEPT !.status = StReloadFailed(r.data)]
    ELSE a

\* ReloadActive stamping last_read when the read fails too
ReloadActiveStampOnErr(a, r, t) ==
    IF a.active < Len(a.tabs)
    THEN IF r.ok
         THEN [a EXCEPT !.tabs[a.active + 1].content = r.data,
                        !.tabs[a.active + 1].last_read = t,
                        !.status = StReloaded]
         ELSE [a EXCEPT !.tabs[a.active + 1].last_read = t,
                        !.status = StReloadFailed(r.data)]
    ELSE a

\* ReloadActive leaving last_read as it was
ReloadActiveStaleTime(a, r, t) ==
    IF a.active < Len(a.tabs)
    THEN IF r.ok
         THEN [a EXCEPT !.tabs[a.active + 1].content = r.data,
                        !.status = StReloaded]
         ELSE [a EXCEPT !.status = StReloadFailed(r.data)]
    ELSE a

\* App::reload_active, r the outcome of the read (when there is one) at t
ReloadActive(a, r, t) ==
    IF a.active < Len(a.tabs)
    THEN IF r.ok
         THEN [a EXCEPT !.tabs[a.active + 1].content = r.data,
                        !.tabs[a.active + 1].last_read = t,
                        !.status = StReloaded]
         ELSE [a EXCEPT !.status = StReloadFailed(r.data)]
    ELSE a

\* ---------------------------------------------------------------- a frame
\* a click on a tab-strip widget of tab idx: its label or its close button
Click(kind, idx) == [kind |-> kind, idx |-> idx]
NoClick == Click("none", 0)

RECURSIVE StripLoopSelectNext(_, _, _, _)
\* StripLoop with a click on a label selecting the tab after it
StripLoopSelectNext(a, n0, idx, click) ==
    IF idx >= n0 THEN a
    ELSE IF idx >= Len(a.tabs) THEN [a EXCEPT !.panicked = TRUE]
    ELSE LET a1 == IF click = Click("select", idx) THEN [a EXCEPT !.active = idx + 1]
                   ELSE IF click = Click("close", idx) THEN CloseTab(a, idx)
                   ELSE a
         IN  StripLoopSelectNext(a1, n0, idx + 1, click)

RECURSIVE StripLoop(_, _, _, _)
\* the tab-strip loop `for idx in 0..self.tabs.len()` from idx on; n0 is the
\* length the range was built with.  Reading self.tabs[idx] past the end
\* panics.
StripLoop(a, n0, idx, click) ==
    IF idx >= n0 THEN a
    ELSE IF idx >= Len(a.tabs) THEN [a EXCEPT !.panicked = TRUE]
    ELSE LET a1 == IF click = Click("select", idx) THEN [a EXCEPT !.active = idx]
                   ELSE IF click = Click("close", idx) THEN CloseTab(a, idx)
                   ELSE a
         IN  StripLoop(a1, n0, idx + 1, click)

\* the tab strip of one frame
TabStrip(a, click) == IF a.panicked THEN a ELSE StripLoop(a, Len(a.tabs), 0, click)

\* the main viewer: the welcome text when there is no tab, else it reads
\* self.tabs[self.active]
Viewer(a) ==
    IF a.panicked \/ a.tabs = <<>> THEN a
    ELSE IF a.active >= Len(a.tabs) THEN [a EXCEPT !.panicked = TRUE]
    ELSE a

\* what the last frame handled
Handled(op, idx, files, reads) == [op |-> op, idx |-> idx, files |-> files, reads |-> reads]

\* the end of App::update: drawn is the state the frame's widgets leave
EndFrame(drawn, scale, closing, h) ==
    \E a \in {drawn} :
        /\ tabs' = a.tabs
        /\ active' = a.active
        /\ status' = a.status
        /\ md_text_scale' = scale
        /\ now' = now + 1
        /\ phase' = IF a.panicked THEN "panicked"
                    ELSE IF closing THEN "closed"
                    ELSE "running"
        /\ last' = h

\* the batches a file dialog can return: distinct paths, in selection order
Batches ==
    {f \in UNION {[1..n -> DialogPaths] : n \in 1..MaxBatch} :
        \A i, j \in 1..Len(f) : i # j => f[i] # f[j]}

\* the outcomes of the reads of a batch: one for each file that is read
ReadsOf(files) ==
    {r \in [1..Len(files) -> ReadOutcomes \cup {NoRead}] :
        \A i \in 1..Len(files) :
            IF IsMd(files[i]) THEN r[i] \in OpenReads(files[i]) ELSE r[i] = NoRead}

\* what one file dialog can return, with the outcomes of the reads
OpenInputs == UNION {{[files |-> f, reads |-> r] : r \in ReadsOf(f)} : f \in Batches}

\* the outcomes of the read of a reload: none when no tab is active
ReloadReadsOf(ts, act) ==
    IF act < Len(ts) THEN ReloadReads(TabAt(ts, act).path) ELSE {NoRead}

\* a frame can start: the window is open and the run has frames left
CanDraw(limit) == phase = "running" /\ now < limit

Init ==
    /\ tabs = <<>>
    /\ active = 0
    /\ status = StReady
    /\ md_text_scale = F32_1_0
    /\ now = 0
    /\ phase = "running"
    /\ last = Handled("new", 0, <<>>, <<>>)

\* File > Open... ("menu") or + Open ("strip"), the dialog returning files
OpenFrame(where, files, reads) ==
    LET drawn == IF where = "menu"
                 THEN Viewer(TabStrip(OpenFiles(App, files, reads, now + 1), NoClick))
                 ELSE Viewer(OpenFiles(TabStrip(App, NoClick), files, reads, now + 1))
    IN  /\ Len(tabs) + Len(files) <= MaxTabs
        /\ EndFrame(drawn, md_text_scale, FALSE, Handled("open", 0, files, reads))

Open ==
    /\ CanDraw(MaxTime)
    /\ \E where \in {"menu", "strip"}, in \in OpenInputs :
          OpenFrame(where, in.files, in.reads)

\* File > Open... or + Open, the dialog returning one file of any name
OpenProbe ==
    /\ CanDraw(MaxProbeTime)
    /\ \E where \in {"menu", "strip"}, p \in ProbePaths :
          \E r \in ReadsOf(<<p>>) : OpenFrame(where, <<p>>, r)

\* File > Open... or + Open, the dialog cancelled
OpenCancelled ==
    /\ CanDraw(MaxTime)
    /\ EndFrame(Viewer(TabStrip(App, NoClick)), md_text_scale, FALSE,
                Handled("open_cancelled", 0, <<>>, <<>>))

\* File > Reload
ReloadFrame(r) ==
    EndFrame(Viewer(TabStrip(ReloadActive(App, r, now + 1), NoClick)),
             md_text_scale, FALSE, Handled("reload", active, <<>>, <<r>>))

Reload ==
    /\ CanDraw(MaxTime)
    /\ \E r \in ReloadReadsOf(tabs, active) : ReloadFrame(r)

\* File > Close Tab
MenuCloseTab ==
    /\ CanDraw(MaxTime)
    /\ EndFrame(Viewer(TabStrip(CloseTab(App, active), NoClick)),
                md_text_scale, FALSE, Handled("menu_close", active, <<>>, <<>>))

\* File > Quit
Quit ==
    /\ CanDraw(MaxTime)
    /\ EndFrame(Viewer(TabStrip(App, NoClick)), md_text_scale, TRUE,
                Handled("quit", 0, <<>>, <<>>))

\* the button A-
ZoomOutFrame ==
    EndFrame(Viewer(TabStrip(App, NoClick)), ScaleDown(md_text_scale), FALSE,
             Handled("zoom_out", 0, <<>>, <<>>))

\* the button A+
ZoomInFrame ==
    EndFrame(Viewer(TabStrip(App, NoClick)), ScaleUp(md_text_scale), FALSE,
             Handled("zoom_in", 0, <<>>, <<>>))

ZoomOut == CanDraw(MaxTime) /\ ZoomOutFrame

ZoomIn == CanDraw(MaxTime) /\ ZoomInFrame

\* a click on the label of tab idx
SelectFrame(idx) ==
    EndFrame(Viewer(TabStrip(App, Click("select", idx))), md_text_scale, FALSE,
             Handled("select", idx, <<>>, <<>>))

Select ==
    /\ CanDraw(MaxTime)
    /\ \E idx \in 0..(Len(tabs) - 1) : SelectFrame(idx)

\* a click on the close button of tab idx
StripCloseFrame(idx) ==
    EndFrame(Viewer(TabStrip(App, Click("close", idx))), md_text_scale, FALSE,
             Handled("strip_close", idx, <<>>, <<>>))

StripClose ==
    /\ CanDraw(MaxTime)
    /\ \E idx \in 0..(Len(tabs) - 1) : StripCloseFrame(idx)

Next ==
    \/ Open
    \/ OpenCancelled
    \/ Reload
    \/ MenuCloseTab
    \/ Quit
    \/ ZoomOut
    \/ ZoomIn
    \/ Select
    \/ StripClose

Spec == Init /\ [][Next]_vars

\* the text-size buttons alone, for more frames
ZoomOutLong == CanDraw(MaxScaleTime) /\ ZoomOutFrame

ZoomInLong == CanDraw(MaxScaleTime) /\ ZoomInFrame

NextScale == ZoomOutLong \/ ZoomInLong

SpecScale == Init /\ [][NextScale]_vars

\* opens of one file alone, over more file names
NextProbe == OpenProbe

SpecProbe == Init /\ [][NextProbe]_vars

\* ------------------------------------------------------------- the claims
\* the paths of DialogPaths with a Markdown extension, and the others
MdPaths == {P_a_md, P_d_R_Markdown}
OtherPaths == {P_n_txt, P_dot_md}

\* the frame that just ended handled an Open whose dialog returned files
JustOpened == last.op = "open"

\* positions of the batch h whose file is opened: Markdown and read
OpenedAt(h) == {i \in 1..Len(h.files) : h.files[i] \in MdPaths /\ h.reads[i].ok}
\* positions of the batch h whose file is skipped
SkippedAt(h) == {i \in 1..Len(h.files) : h.files[i] \in OtherPaths}
\* positions of the batch h whose file is Markdown and could not be read
FailedAt(h) == {i \in 1..Len(h.files) : h.files[i] \in MdPaths /\ ~h.reads[i].ok}

\* the k-th smallest element of the set S of numbers
RECURSIVE Nth(_, _)
Nth(S, k) ==
    LET m == CHOOSE x \in S : \A y \in S : x <= y
    IN  IF k = 1 THEN m ELSE Nth(S \ {m}, k - 1)

\* ts is old followed by one tab for each opened file of h, in batch order
AppendedInOrder(old, ts, h) ==
    /\ Len(ts) = Len(old) + Cardinality(OpenedAt(h))
    /\ SubSeq(ts, 1, Len(old)) = old
    /\ \A k \in 1..Cardinality(OpenedAt(h)) :
          /\ ts[Len(old) + k].path = h.files[Nth(OpenedAt(h), k)]
          /\ ts[Len(old) + k].content = h.reads[Nth(OpenedAt(h), k)].data

\* C1: whenever a tab is open, active is the index of one of the tabs:
\* 0 <= active < tabs.len(), whatever frames have been drawn.
C1_ActiveInRange == tabs # <<>> => (0 <= active /\ active < Len(tabs))

\* File > Close Tab has closed the last tab while it was active and other
\* tabs remain: active was clamped
C1_Witness ==
    /\ last.op = "menu_close"
    /\ tabs # <<>>
    /\ last.idx = Len(tabs)
    /\ active = Len(tabs) - 1

\* C2: a batch of N Markdown paths that are all read appends N tabs after
\* the tabs there were, in the order of the batch, changes none of those,
\* and leaves active on the last appended tab.
C2_OpenAllValid ==
    [][(JustOpened' /\ OpenedAt(last') = 1..Len(last'.files)) =>
          /\ AppendedInOrder(tabs, tabs', last')
          /\ Len(tabs') = Len(tabs) + Len(last'.files)
          /\ active' = Len(tabs) + Len(last'.files) - 1]_vars

\* two files opened in one batch behind a tab that was open before
C2_Witness ==
    /\ JustOpened
    /\ Len(last.files) = 2
    /\ OpenedAt(last) = {1, 2}
    /\ Len(tabs) = 3
    /\ active = 2

\* the status names the last skipped file of the batch h
NamesLastSkipped(st, h) ==
    /\ st.msg = "Skipped non-markdown file: "
    /\ st.arg = h.files[Nth(SkippedAt(h), Cardinality(SkippedAt(h)))]

\* the batch h holds a Markdown path that is read and a path that is skipped
Mixed(h) == OpenedAt(h) # {} /\ SkippedAt(h) # {}

\* C3 as stated: after a batch with Markdown and other paths, in any order,
\* status names the last skipped file.
C3_StatusNamesLastSkipped ==
    [][(JustOpened' /\ Mixed(last')) => NamesLastSkipped(status', last')]_vars

\* C3 as amended: after such a batch status names the last skipped file
\* exactly when the last path of the batch is one that is skipped; when a
\* Markdown path comes after it, status is the outcome of that path.
C3_StatusNamesLastSkippedIfLast ==
    [][(JustOpened' /\ Mixed(last')) =>
          (NamesLastSkipped(status', last')
             <=> last'.files[Len(last'.files)] \in OtherPaths)]_vars

\* a batch of a Markdown file followed by another file has been opened
C3_Witness ==
    /\ JustOpened
    /\ Mixed(last)
    /\ last.files[Len(last.files)] \in OtherPaths
    /\ NamesLastSkipped(status, last)

\* C4: of a batch with Markdown and other paths, the tabs added are those
\* of the Markdown paths that are read, in batch order: a skipped path adds
\* no tab and does not keep the paths after it from being opened.
C4_OnlyValidOpened ==
    [][(JustOpened' /\ Mixed(last')) => AppendedInOrder(tabs, tabs', last')]_vars

\* a batch whose first path is skipped and whose last path is opened
C4_Witness ==
    /\ JustOpened
    /\ 1 \in SkippedAt(last)
    /\ Len(last.files) \in OpenedAt(last)
    /\ tabs # <<>>
    /\ tabs[Len(tabs)].path = last.files[Len(last.files)]

\* the frame that just ended handled File > Reload
JustReloaded == last.op = "reload"

\* C5: a reload whose read fails leaves the tabs (the active tab's content
\* and last_read among them) and active as they were, sets status to the
\* failure message with the error, and the application keeps running.
C5_ReloadFailure ==
    [][(JustReloaded' /\ tabs # <<>> /\ ~last'.reads[1].ok) =>
          /\ tabs' = tabs
          /\ active' = active
          /\ status'.msg = "Reload failed: "
          /\ status'.arg = <<last'.reads[1].data>>
          /\ phase' = "running"]_vars

\* a reload of an open tab has failed
C5_Witness ==
    /\ JustReloaded
    /\ tabs # <<>>
    /\ last.reads = <<ReadErr("NotFound")>>
    /\ status.msg = "Reload failed: "
    /\ phase = "running"

\* C6: a reload whose read succeeds gives the active tab the text read and
\* the time of the read, later than its last_read was, keeps its title and
\* path, and sets status to the reload-success message.
C6_ReloadSuccess ==
    [][(JustReloaded' /\ tabs # <<>> /\ last'.reads[1].ok) =>
          /\ active' = active
          /\ Len(tabs') = Len(tabs)
          /\ tabs'[active + 1].content = last'.reads[1].data
          /\ tabs'[active + 1].last_read = now'
          /\ tabs'[active + 1].last_read > tabs[active + 1].last_read
          /\ tabs'[active + 1].title = tabs[active + 1].title
          /\ tabs'[active + 1].path = tabs[active + 1].path
          /\ status' = [msg |-> "Reloaded from disk", arg |-> <<>>]]_vars

\* a reload has read the edited file into the active tab
C6_Witness ==
    /\ JustReloaded
    /\ tabs # <<>>
    /\ last.reads = <<ReadOk(Edited)>>
    /\ tabs[active + 1].content = Edited
    /\ tabs[active + 1].last_read = now
    /\ tabs[active + 1].content # Original(tabs[active + 1].path)

\* C7: md_text_scale stays in [0.5, 3.0]; A+ at 3.0 leaves 3.0 and A- at
\* 0.5 leaves 0.5; A+ never lowers the scale and A- never raises it.
C7_ScaleClamped ==
    /\ [](F32_0_5 <= md_text_scale /\ md_text_scale <= F32_3_0)
    /\ [][/\ last'.op = "zoom_in" =>
                /\ md_text_scale' >= md_text_scale
                /\ md_text_scale = F32_3_0 => md_text_scale' = F32_3_0
          /\ last'.op = "zoom_out" =>
                /\ md_text_scale' <= md_text_scale
                /\ md_text_scale = F32_0_5 => md_text_scale' = F32_0_5]_vars

\* thirteen frames of A+: the twelfth reaches 3.0 and the thirteenth was
\* applied at 3.0
C7_Witness ==
    /\ now = 13
    /\ last.op = "zoom_in"
    /\ md_text_scale = F32_3_0

\* the frame that just ended handled a close of tab last.idx
JustClosed == last.op \in {"menu_close", "strip_close"}

\* C8: a close of a tab changes active only by the clamp: active stays when
\* it is still below the new length, else it becomes the new length - 1 (0
\* when no tab is left).  Of two tabs with active = 1, closing tab 0 leaves
\* the former tab 1 and active = 0.  When tab i <= active is closed and
\* active stays, the tab shown becomes the one that was at active + 1.
C8_CloseClampsActive ==
    [][(JustClosed' /\ last'.idx < Len(tabs)) =>
          /\ active' = IF active < Len(tabs) - 1 THEN active
                       ELSE IF Len(tabs) = 1 THEN 0
                       ELSE Len(tabs) - 2
          /\ (Len(tabs) = 2 /\ active = 1 /\ last'.idx = 0) =>
                (tabs' = <<tabs[2]>> /\ active' = 0)
          /\ (active < Len(tabs) - 1 /\ last'.idx <= active) =>
                (active' = active /\ tabs'[active' + 1] = tabs[active + 2])]_vars

\* File > Close Tab has closed the active tab, which was not the last: the
\* index stays and the next tab is shown
C8_Witness ==
    /\ last.op = "menu_close"
    /\ last.idx < Len(tabs)
    /\ active = last.idx
    /\ phase = "running"

\* C9: a close of tab i removes the tab at i and no other: the tabs before
\* it and after it stay, in order, with their fields.  A close with
\* i >= tabs.len() changes nothing.
C9_CloseRemovesOne ==
    [][JustClosed' =>
          IF last'.idx < Len(tabs)
          THEN /\ Len(tabs') = Len(tabs) - 1
               /\ \A j \in 1..Len(tabs') :
                     tabs'[j] = IF j <= last'.idx THEN tabs[j] ELSE tabs[j + 1]
          ELSE UNCHANGED <<tabs, active, status, md_text_scale>>]_vars

\* File > Close Tab has closed the middle one of three tabs: the first and
\* the third remain, in that order
C9_Witness ==
    /\ last.op = "menu_close"
    /\ last.idx = 1
    /\ Len(tabs) = 2
    /\ phase = "running"

\* C10: in a batch, a Markdown path whose read fails adds no tab and does
\* not keep the later paths from being opened; active ends on the last tab
\* the batch opened, or where it was when the batch opened none; and when
\* the failed path is the last of the batch, status is the failure message
\* with the error.  In every state, the iteration of the loop on such a
\* path changes status to that message and nothing else.
C10_OpenFailure ==
    /\ [](\A p \in MdPaths, e \in IoErrors :
             OpenOne(App, p, ReadErr(e), now + 1) =
                [tabs |-> tabs, active |-> active, panicked |-> FALSE,
                 status |-> [msg |-> "Failed to open: ", arg |-> <<e>>]])
    /\ [][(JustOpened' /\ FailedAt(last') # {}) =>
          /\ AppendedInOrder(tabs, tabs', last')
          /\ active' = IF OpenedAt(last') = {} THEN active
                       ELSE Len(tabs) + Cardinality(OpenedAt(last')) - 1
          /\ Len(last'.files) \in FailedAt(last') =>
                /\ status'.msg = "Failed to open: "
                /\ status'.arg = <<last'.reads[Len(last'.files)].data>>]_vars

\* a batch whose first file could not be read and whose second was opened
C10_Witness ==
    /\ JustOpened
    /\ 1 \in FailedAt(last)
    /\ 2 \in OpenedAt(last)
    /\ tabs # <<>>
    /\ tabs[Len(tabs)].path = last.files[2]
    /\ active = Len(tabs) - 1

\* the frame that just ended handled a click on the label of tab last.idx
JustSelected == last.op = "select"

\* C11: a click on the label of tab i, which is always one of the tabs,
\* sets active = i and leaves tabs, status and md_text_scale as they were;
\* active stays an index of tabs.
C11_SelectSetsActive ==
    [][JustSelected' =>
          /\ last'.idx < Len(tabs)
          /\ active' = last'.idx
          /\ active' < Len(tabs')
          /\ UNCHANGED <<tabs, status, md_text_scale>>]_vars

\* the first of two tabs has been selected
C11_Witness ==
    /\ JustSelected
    /\ last.idx = 0
    /\ active = 0
    /\ Len(tabs) = 2
    /\ phase = "running"

\* C12: an Open whose dialog is cancelled, and a Reload while no tab is
\* open, leave tabs, active, status and md_text_scale as they were.
C12_NoOps ==
    [][(last'.op = "open_cancelled" \/ (JustReloaded' /\ tabs = <<>>)) =>
          /\ UNCHANGED <<tabs, active, status, md_text_scale>>
          /\ phase' = "running"]_vars

\* File > Reload with no tab open, after an open that failed: the status
\* is still that of the open
C12_Witness ==
    /\ JustReloaded
    /\ tabs = <<>>
    /\ last.reads = <<NoRead>>
    /\ status.msg = "Failed to open: "

\* ts is old without its k-th tab
Without(old, ts, k) ==
    /\ Len(ts) = Len(old) - 1
    /\ \A j \in 1..Len(ts) : ts[j] = IF j < k THEN old[j] ELSE old[j + 1]

\* C13: a tab keeps its path and its title from the frame that opens it to
\* the frame that closes it, and only a reload changes a content or a
\* last_read: an open keeps the tabs there were, a close keeps all tabs but
\* one, a reload keeps every path and title, any other frame keeps tabs.
C13_TabsKeepPathAndTitle ==
    [][IF JustOpened' THEN SubSeq(tabs', 1, Len(tabs)) = tabs
       ELSE IF JustClosed'
            THEN tabs' = tabs \/ \E k \in 1..Len(tabs) : Without(tabs, tabs', k)
       ELSE IF JustReloaded'
            THEN /\ Len(tabs') = Len(tabs)
                 /\ \A j \in 1..Len(tabs) :
                       /\ tabs'[j].path = tabs[j].path
                       /\ tabs'[j].title = tabs[j].title
       ELSE tabs' = tabs]_vars

\* the tab of d/R.MarkDown has been reloaded with the edited text and has
\* the path and the title it was opened with
C13_Witness ==
    /\ JustReloaded
    /\ tabs # <<>>
    /\ tabs[active + 1].content = Edited
    /\ tabs[active + 1].path = P_d_R_Markdown
    /\ tabs[active + 1].title = <<"R", ".", "M", "a", "r", "k", "D", "o", "w", "n">>

\* the names of ProbePaths whose extension is md or markdown in any case
ProbeAccepted == {P_a_md, P_d_R_Markdown, P_X_MD, P_y_Md}

\* the file name of each of the other names of ProbePaths
ProbeName(p) ==
    CASE p = P_n_txt -> <<"n", ".", "t", "x", "t">>
      [] p = P_dot_md -> <<".", "m", "d">>
      [] p = P_md -> <<"m", "d">>
      [] p = P_a_md_b -> <<"a", ".", "m", "d", ".", "b">>
      [] p = P_b_mdx -> <<"b", ".", "m", "d", "x">>
      [] p = P_c_md_dot -> <<"c", ".", "m", "d", ".">>
      [] p = P_d_x_md -> <<"m", "d">>

\* C14: a path the dialog returns is read exactly when its extension is md
\* or markdown in any case (it then becomes the last tab, or the status
\* tells its read failed); a path with another extension or with none adds
\* no tab and sets status to the skipped message with its file name.
C14_AcceptedIffMdExtension ==
    [][(JustOpened' /\ Len(last'.files) = 1) =>
          LET p == last'.files[1]
              r == last'.reads[1]
          IN  IF p \in ProbeAccepted
              THEN IF r.ok
                   THEN /\ Len(tabs') = Len(tabs) + 1
                        /\ tabs'[Len(tabs')].path = p
                        /\ status' = Status("Opened file", <<>>)
                   ELSE /\ tabs' = tabs
                        /\ status'.msg = "Failed to open: "
              ELSE /\ tabs' = tabs
                   /\ active' = active
                   /\ status' = Status("Skipped non-markdown file: ", ProbeName(p))]_vars

\* X.MD has been opened and a.md.b has been skipped
C14_Witness ==
    /\ JustOpened
    /\ last.files = <<P_a_md_b>>
    /\ status = Status("Skipped non-markdown file: ", P_a_md_b)
    /\ Len(tabs) = 1
    /\ tabs[1].path = P_X_MD

\* C15: no frame reads tabs at an index that is out of range at the moment
\* of the read, neither in the tab strip, whose loop takes tabs.len() once,
\* nor in the viewer: no frame, a close in the tab strip included, ends in
\* a crash.
C15_NoReadOutOfRange == phase # "panicked"

\* C16: a reload changes no tab but the active one, and keeps the order and
\* the number of the tabs, active and md_text_scale, also when another tab
\* has the path of the active tab.
C16_ReloadOnlyActive ==
    [][JustReloaded' =>
          /\ Len(tabs') = Len(tabs)
          /\ \A j \in 1..Len(tabs) : j # active + 1 => tabs'[j] = tabs[j]
          /\ UNCHANGED <<active, md_text_scale>>]_vars

\* of two tabs of one file the active one has been reloaded with the
\* edited text and the other one has the text it was opened with
C16_Witness ==
    /\ JustReloaded
    /\ \E j \in 1..Len(tabs) :
          /\ j # active + 1
          /\ tabs[j].path = tabs[active + 1].path
          /\ tabs[active + 1].content = Edited
          /\ tabs[j].content = "# Hi"
          /\ tabs[j].last_read < tabs[active + 1].last_read

\* C17: after an open of one path or more the status is that of the last
\* path alone: skipped with its name when it is not Markdown, opened when
\* its read succeeded, failed with the error when its read failed.
C17_StatusOfLastPath ==
    [][JustOpened' =>
          LET n == Len(last'.files)
              p == last'.files[n]
              r == last'.reads[n]
          IN  status' = IF p \in OtherPaths
                        THEN Status("Skipped non-markdown file: ", ProbeName(p))
                        ELSE IF r.ok THEN Status("Opened file", <<>>)
                        ELSE Status("Failed to open: ", <<r.data>>)]_vars

\* the read of the first path failed and the second path opened: the
\* status tells of the second alone
C17_Witness ==
    /\ JustOpened
    /\ Len(last.files) = 2
    /\ 1 \in FailedAt(last)
    /\ 2 \in OpenedAt(last)
    /\ status = Status("Opened file", <<>>)

\* C18: a select, a close and a text-size click change neither the status
\* nor a tab that stays; the status changes only in an open of one path or
\* more and in a reload with a tab open.
C18_StatusOnlyByOpenOrReload ==
    [][/\ status' # status => (JustOpened' \/ (JustReloaded' /\ tabs # <<>>))
       /\ last'.op \in {"select", "zoom_in", "zoom_out"} => tabs' = tabs
       /\ JustClosed' =>
             \/ tabs' = tabs
             \/ \E k \in 1..Len(tabs) : Without(tabs, tabs', k)]_vars

\* a tab has been closed after a reload that failed, and the status is
\* still that of the reload
C18_Witness ==
    /\ JustClosed
    /\ tabs # <<>>
    /\ status.msg = "Reload failed: "
    /\ phase = "running"

====
